---- MODULE Spec2Model ----
(***************************************************************************)
(* Market data pipeline: downloader -> indicator engine (data_processor)  *)
(* -> market aggregator and daily report (report_generator).              *)
(*                                                                         *)
(* Numbers.  Every pandas/numpy float is modelled as an exact rational     *)
(* [n |-> numerator, d |-> denominator] in lowest terms with d > 0, or as  *)
(* one of the three IEEE specials, which keep d = 0:                       *)
(*     NaN = 0/0,   +inf = 1/0,   -inf = -1/0.                             *)
(* Arithmetic and comparisons follow IEEE-754 on those specials (NaN       *)
(* compares false with everything, x/0 is an infinity or NaN).  Binary     *)
(* rounding of finite values is outside the model: finite arithmetic is    *)
(* exact.                                                                  *)
(***************************************************************************)
EXTENDS Integers, Sequences, FiniteSets, Bags, TLC

(***************************************************************************)
(* Program constants                                                       *)
(***************************************************************************)
VolWindow == 20
TopN == 10
TopMovers == 5
TopVolume == 3

(***************************************************************************)
(* Bounds of the model                                                     *)
(***************************************************************************)
\* the downloader is asked for at most this many symbols (1..MaxSymbols)
MaxSymbols == 13

\* the engine is tried on every series of at most MaxLen bars over CloseValues
\* and with every window up to MaxWindow, besides the windows the code uses
MaxLen == 4
MaxWindow == 3

(***************************************************************************)
(* Floating point values                                                   *)
(***************************************************************************)
Abs(i) == IF i < 0 THEN -i ELSE i

Sign(i) == IF i > 0 THEN 1 ELSE IF i < 0 THEN -1 ELSE 0

RECURSIVE GCD(_, _)
GCD(a, b) == IF b = 0 THEN a ELSE GCD(b, a % b)

NaN == [n |-> 0, d |-> 0]
PInf == [n |-> 1, d |-> 0]
NInf == [n |-> -1, d |-> 0]

\* the finite value num/den (den # 0), in lowest terms
Rat(num, den) ==
    LET g == GCD(Abs(num), Abs(den))
        s == IF den < 0 THEN -1 ELSE 1
    IN  [n |-> s * (num \div g), d |-> s * (den \div g)]

Num(i) == [n |-> i, d |-> 1]

\* pd.isna / np.isnan
IsNaN(x) == x.d = 0 /\ x.n = 0
IsInf(x) == x.d = 0 /\ x.n # 0
IsFinite(x) == x.d > 0

\* x + y
FAdd(x, y) ==
    IF IsNaN(x) \/ IsNaN(y) THEN NaN
    ELSE IF IsInf(x) /\ IsInf(y) THEN (IF x.n = y.n THEN x ELSE NaN)
    ELSE IF IsInf(x) THEN x
    ELSE IF IsInf(y) THEN y
    ELSE Rat(x.n * y.d + y.n * x.d, x.d * y.d)

FNeg(x) == [n |-> -x.n, d |-> x.d]

\* x - y
FSub(x, y) == FAdd(x, FNeg(y))

\* x * y
FMul(x, y) ==
    IF IsNaN(x) \/ IsNaN(y) THEN NaN
    ELSE IF IsInf(x) \/ IsInf(y)
         THEN (IF x.n = 0 \/ y.n = 0 THEN NaN
               ELSE IF Sign(x.n) * Sign(y.n) > 0 THEN PInf ELSE NInf)
    ELSE Rat(x.n * y.n, x.d * y.d)

\* x / y; a zero divisor is +0.0 (no value of the model is -0.0)
FDiv(x, y) ==
    IF IsNaN(x) \/ IsNaN(y) THEN NaN
    ELSE IF IsInf(x) /\ IsInf(y) THEN NaN
    ELSE IF IsInf(x) THEN (IF Sign(x.n) * (IF y.n < 0 THEN -1 ELSE 1) > 0 THEN PInf ELSE NInf)
    ELSE IF IsInf(y) THEN Num(0)
    ELSE IF y.n = 0 THEN (IF x.n = 0 THEN NaN ELSE IF x.n > 0 THEN PInf ELSE NInf)
    ELSE Rat(x.n * y.d, x.d * y.n)

\* abs(x)
FAbs(x) == [n |-> Abs(x.n), d |-> x.d]

\* x > y (False when either is NaN)
FGt(x, y) ==
    /\ ~IsNaN(x)
    /\ ~IsNaN(y)
    /\ IF IsInf(x) \/ IsInf(y)
       THEN (IF IsInf(x) /\ IsInf(y) THEN x.n > y.n
             ELSE IF IsInf(x) THEN x.n > 0
             ELSE y.n < 0)
       ELSE x.n * y.d > y.n * x.d

\* x < y
FLt(x, y) == FGt(y, x)

(***************************************************************************)
(* Sequences                                                               *)
(***************************************************************************)
Range(s) == {s[i] : i \in 1..Len(s)}

\* s[:k]
Take(s, k) == IF Len(s) <= k THEN s ELSE SubSeq(s, 1, k)

(***************************************************************************)
(* Indicator engine (data_processor.py)                                    *)
(*                                                                         *)
(* A raw file is [kind, rows]: kind "csv" with rows = <<bar, ...>> (a bar  *)
(* is [Date, Close, Volume]; a file with the header line only has no bar), *)
(* or kind "garbage" for a file pandas cannot parse (zero bytes).          *)
(* A DataFrame is the sequence of its rows, index i of pandas being        *)
(* position i+1 here.                                                      *)
(***************************************************************************)
Column(rows, name) == [i \in 1..Len(rows) |-> rows[i][name]]

\* data.sort_values('Date').reset_index(drop=True): each row is moved in
\* front of the rows already placed that have a later date
RECURSIVE InsertByDate(_, _)
InsertByDate(placed, row) ==
    IF placed = <<>> \/ placed[Len(placed)].Date <= row.Date THEN Append(placed, row)
    ELSE Append(InsertByDate(SubSeq(placed, 1, Len(placed) - 1), row), placed[Len(placed)])

RECURSIVE SortByDate(_)
SortByDate(rows) ==
    IF rows = <<>> THEN <<>>
    ELSE InsertByDate(SortByDate(SubSeq(rows, 1, Len(rows) - 1)), rows[Len(rows)])

RECURSIVE SumRange(_, _, _)
SumRange(vals, lo, hi) ==
    IF lo > hi THEN Num(0) ELSE FAdd(vals[lo], SumRange(vals, lo + 1, hi))

RollingMean_Partial(vals, w) ==
    [i \in 1..Len(vals) |->
        IF i < w THEN FDiv(SumRange(vals, 1, i), Num(i))
        ELSE FDiv(SumRange(vals, i - w + 1, i), Num(w))]

\* vals.rolling(window=w).mean(): min_periods defaults to the window, so a
\* position with fewer than w values behind it, or a NaN in its window, is NaN
RollingMean(vals, w) ==
    [i \in 1..Len(vals) |->
        IF i < w THEN NaN ELSE FDiv(SumRange(vals, i - w + 1, i), Num(w))]

\* forward fill (fill_method='pad')
RECURSIVE FFill(_, _)
FFill(vals, last) ==
    IF vals = <<>> THEN <<>>
    ELSE LET v == IF IsNaN(Head(vals)) THEN last ELSE Head(vals)
         IN  <<v>> \o FFill(Tail(vals), v)

\* vals.pct_change(): vals / vals.shift(1) - 1.  pandas up to 2.x forward
\* fills missing values first (pad = TRUE), pandas 3 does not (pad = FALSE)
PctChange(vals, pad) ==
    LET f == IF pad THEN FFill(vals, NaN) ELSE vals
    IN  [i \in 1..Len(vals) |->
            IF i = 1 THEN NaN ELSE FSub(FDiv(f[i], f[i - 1]), Num(1))]

\* vol_ma, vol_ratio of calculate_volume_indicators
VolumeMA(rows) == RollingMean(Column(rows, "Volume"), VolWindow)

VolumeRatio(rows) ==
    LET ma == VolumeMA(rows)
    IN  [i \in 1..Len(rows) |-> FDiv(rows[i].Volume, ma[i])]

\* the columns process_symbol_data adds to the sorted frame
Annotate(rows, pad) ==
    LET data == SortByDate(rows)
        vol_ma == VolumeMA(data)
        vol_ratio == VolumeRatio(data)
        ret == PctChange(Column(data, "Close"), pad)
    IN  [i \in 1..Len(data) |->
            [Date |-> data[i].Date,
             Close |-> data[i].Close,
             Volume |-> data[i].Volume,
             Volume_MA |-> vol_ma[i],
             Volume_Ratio |-> vol_ratio[i],
             Daily_Return |-> ret[i]]]

\* what a function returns: a value, or None
None == [isNone |-> TRUE, rows |-> <<>>]
Frame(rows) == [isNone |-> FALSE, rows |-> rows]

\* process_symbol_data: any exception is logged and None returned.
\* read_csv raises on a file it cannot parse.  On a frame without rows the
\* outcome depends on the pandas release: pct_change raises ValueError in
\* some (emptyRaises), the others return the annotated frame without rows.
ProcessSymbolData(file, pad, emptyRaises) ==
    IF file.kind = "garbage" THEN None
    ELSE IF file.rows = <<>> /\ emptyRaises THEN None
    ELSE Frame(Annotate(file.rows, pad))

(***************************************************************************)
(* Indicator engine: the price indicators.  Here a bar is                  *)
(* [Date, Open, High, Low, Close, Volume].  The exponential averages       *)
(* (EMA_20, MACD) and the rolling standard deviations (Bollinger bands,    *)
(* Volatility) need powers and square roots and are left out.              *)
(***************************************************************************)
SmaShort == 20
SmaLong == 50
RsiWindow == 14

CalculateSMA_ZeroFill(rows, window) ==
    [i \in 1..Len(rows) |->
        IF i < window THEN Num(0)
        ELSE FDiv(SumRange(Column(rows, "Close"), i - window + 1, i), Num(window))]

\* calculate_sma
CalculateSMA(rows, window) == RollingMean(Column(rows, "Close"), window)

Diff_Forward(vals) ==
    [i \in 1..Len(vals) |-> IF i = Len(vals) THEN NaN ELSE FSub(vals[i + 1], vals[i])]

\* vals.diff(): vals - vals.shift(1)
Diff(vals) ==
    [i \in 1..Len(vals) |-> IF i = 1 THEN NaN ELSE FSub(vals[i], vals[i - 1])]

\* delta.where(delta > 0, 0): the value is kept where the condition is True
\* and replaced by 0 where it is False, which it is for a NaN delta
GainPart(delta) ==
    [i \in 1..Len(delta) |-> IF FGt(delta[i], Num(0)) THEN delta[i] ELSE Num(0)]

\* -delta.where(delta < 0, 0)
LossPart(delta) ==
    [i \in 1..Len(delta) |-> FNeg(IF FLt(delta[i], Num(0)) THEN delta[i] ELSE Num(0))]

CalculateRSI_NoComplement(rows, window) ==
    LET delta == Diff(Column(rows, "Close"))
        gain == RollingMean(GainPart(delta), window)
        loss == RollingMean(LossPart(delta), window)
    IN  [i \in 1..Len(rows) |->
            FDiv(Num(100), FAdd(Num(1), FDiv(gain[i], loss[i])))]

\* calculate_rsi.  A loss mean of 0 makes rs infinite (gain > 0) or NaN
\* (gain = 0); 100 / (1 + inf) is 0 whatever the sign of the zero.
CalculateRSI(rows, window) ==
    LET delta == Diff(Column(rows, "Close"))
        gain == RollingMean(GainPart(delta), window)
        loss == RollingMean(LossPart(delta), window)
    IN  [i \in 1..Len(rows) |->
            FSub(Num(100), FDiv(Num(100), FAdd(Num(1), FDiv(gain[i], loss[i]))))]

\* np.where(close > close.shift(1), volume, np.where(close < close.shift(1), -volume, 0)):
\* both comparisons are False at index 0 and wherever a close is NaN
OBVStep(rows, i) ==
    IF i > 1 /\ FGt(rows[i].Close, rows[i - 1].Close) THEN rows[i].Volume
    ELSE IF i > 1 /\ FLt(rows[i].Close, rows[i - 1].Close) THEN FNeg(rows[i].Volume)
    ELSE Num(0)

OBV_Unsigned(rows) ==
    [i \in 1..Len(rows) |->
        SumRange([j \in 1..Len(rows) |->
                    IF j > 1 /\ rows[j].Close # rows[j - 1].Close THEN rows[j].Volume
                    ELSE Num(0)], 1, i)]

\* obv of calculate_volume_indicators: .cumsum()
OBV(rows) ==
    [i \in 1..Len(rows) |-> SumRange([j \in 1..Len(rows) |-> OBVStep(rows, j)], 1, i)]

\* calculate_volume_indicators
CalculateVolumeIndicators(rows) ==
    [vol_ma |-> VolumeMA(rows), vol_ratio |-> VolumeRatio(rows), obv |-> OBV(rows)]

\* process_symbol_data on a file that parses and has bars: the derived
\* columns of the sorted frame
Indicators(rows, pad) ==
    LET data == SortByDate(rows)
        sma_20 == CalculateSMA(data, SmaShort)
        sma_50 == CalculateSMA(data, SmaLong)
        rsi == CalculateRSI(data, RsiWindow)
        vol == CalculateVolumeIndicators(data)
        ret == PctChange(Column(data, "Close"), pad)
    IN  [i \in 1..Len(data) |->
            [Date |-> data[i].Date,
             SMA_20 |-> sma_20[i],
             SMA_50 |-> sma_50[i],
             RSI |-> rsi[i],
             Volume_MA |-> vol.vol_ma[i],
             Volume_Ratio |-> vol.vol_ratio[i],
             OBV |-> vol.obv[i],
             Daily_Return |-> ret[i],
             Price_Change |-> FSub(data[i].Close, data[i].Open),
             Price_Change_Pct |->
                FMul(FDiv(FSub(data[i].Close, data[i].Open), data[i].Open), Num(100)),
             HL_Spread |-> FSub(data[i].High, data[i].Low),
             HL_Spread_Pct |->
                FMul(FDiv(FSub(data[i].High, data[i].Low), data[i].Close), Num(100))]]

(***************************************************************************)
(* Market aggregator (report_generator.py)                                 *)
(*                                                                         *)
(* self.config is [hasAlerts, volume_multiplier, price_change_threshold]: *)
(* the 'alerts' section of the YAML file, when it has one.  data_dict, a   *)
(* Python dict, is the sequence of its items [symbol, data] in insertion   *)
(* order.                                                                  *)
(***************************************************************************)
DefaultVolumeMultiplier == 2
DefaultPriceChangeThreshold == 5

\* the {} that _load_config of the report generator returns on an exception
EmptyConfig ==
    [hasAlerts |-> FALSE, volume_multiplier |-> NaN, price_change_threshold |-> NaN]

\* self.config.get('alerts', {}).get('volume_multiplier', 2.0)
VolumeMultiplier(config) ==
    IF config.hasAlerts THEN config.volume_multiplier ELSE Num(DefaultVolumeMultiplier)

\* self.config.get('alerts', {}).get('price_change_threshold', 5.0) / 100
PriceThreshold(config) ==
    FDiv(IF config.hasAlerts THEN config.price_change_threshold
         ELSE Num(DefaultPriceChangeThreshold),
         Num(100))

\* data.iloc[-1]
Latest(data) == data[Len(data)]

Skipped_CloseOnly(data) ==
    \/ data = <<>>
    \/ IsNaN(data[Len(data)].Close)

\* the frames generate_market_summary passes over
Skipped(data) ==
    \/ data = <<>>
    \/ IsNaN(Latest(data).Daily_Return)
    \/ IsNaN(Latest(data).Close)

SymbolInfo(symbol, latest) ==
    [symbol |-> symbol,
     price |-> latest.Close,
     change |-> FMul(latest.Daily_Return, Num(100)),
     volume |-> latest.Volume,
     volume_ratio |-> latest.Volume_Ratio]

IsGainer_AtLeast(latest) ==
    ~IsNaN(latest.Daily_Return) /\ ~FLt(latest.Daily_Return, Rat(2, 100))

IsGainer(latest) == FGt(latest.Daily_Return, Rat(2, 100))

IsLoser(latest) == ~IsGainer(latest) /\ FLt(latest.Daily_Return, Rat(-2, 100))

IsHighVolume(latest, config) ==
    /\ ~IsNaN(latest.Volume_Ratio)
    /\ FGt(latest.Volume_Ratio, VolumeMultiplier(config))

IsAlert(latest, config) == FGt(FAbs(latest.Daily_Return), PriceThreshold(config))

\* the alert record without its message text
Alert(symbol, latest) ==
    [symbol |-> symbol,
     type |-> "price_change",
     severity |-> IF FGt(FAbs(latest.Daily_Return), Rat(1, 10)) THEN "high" ELSE "medium"]

AnalyzeSmaTrend_TiesUp(row) ==
    IF IsNaN(row.SMA_20) \/ IsNaN(row.SMA_50) THEN "Insufficient data"
    ELSE IF FGt(row.Close, row.SMA_20) /\ ~FLt(row.SMA_20, row.SMA_50) THEN "Strong Uptrend"
    ELSE IF FGt(row.Close, row.SMA_20) /\ FLt(row.SMA_20, row.SMA_50) THEN "Weak Uptrend"
    ELSE IF FLt(row.Close, row.SMA_20) /\ FLt(row.SMA_20, row.SMA_50) THEN "Strong Downtrend"
    ELSE "Weak Downtrend"

\* _analyze_sma_trend: a > b > c is a > b and b > c
AnalyzeSmaTrend(row) ==
    IF IsNaN(row.SMA_20) \/ IsNaN(row.SMA_50) THEN "Insufficient data"
    ELSE IF FGt(row.Close, row.SMA_20) /\ FGt(row.SMA_20, row.SMA_50) THEN "Strong Uptrend"
    ELSE IF FGt(row.Close, row.SMA_20) /\ FLt(row.SMA_20, row.SMA_50) THEN "Weak Uptrend"
    ELSE IF FLt(row.Close, row.SMA_20) /\ FLt(row.SMA_20, row.SMA_50) THEN "Strong Downtrend"
    ELSE "Weak Downtrend"

\* the items of data_dict the loop does not skip, in iteration order
RECURSIVE Snapshots(_)
Snapshots(data_dict) ==
    IF data_dict = <<>> THEN <<>>
    ELSE (IF Skipped(Head(data_dict).data) THEN <<>>
          ELSE <<[symbol |-> Head(data_dict).symbol, latest |-> Latest(Head(data_dict).data)]>>)
         \o Snapshots(Tail(data_dict))

\* x goes before y in sorted(..., key=lambda x: x[key], reverse=reverse)
Before(x, y, key, reverse) ==
    IF reverse THEN FGt(x[key], y[key]) ELSE FLt(x[key], y[key])

\* sorted() is stable, with reverse=True too: an element is placed behind
\* every element already there that it does not go before
RECURSIVE InsertSorted(_, _, _, _)
InsertSorted(x, s, key, reverse) ==
    IF s = <<>> THEN <<x>>
    ELSE IF Before(x, Head(s), key, reverse) THEN <<x>> \o s
    ELSE <<Head(s)>> \o InsertSorted(x, Tail(s), key, reverse)

RECURSIVE Sorted(_, _, _)
Sorted(s, key, reverse) ==
    IF s = <<>> THEN <<>>
    ELSE InsertSorted(s[Len(s)], Sorted(SubSeq(s, 1, Len(s) - 1), key, reverse), key, reverse)

Infos(snaps) == [i \in 1..Len(snaps) |-> SymbolInfo(snaps[i].symbol, snaps[i].latest)]

Gainers_CutFirst(snaps) ==
    LET P(x) == IsGainer(x.latest)
    IN  Sorted(Take(Infos(SelectSeq(snaps, P)), TopN), "change", TRUE)

Gainers(snaps) ==
    LET P(x) == IsGainer(x.latest)
    IN  Take(Sorted(Infos(SelectSeq(snaps, P)), "change", TRUE), TopN)

Losers(snaps) ==
    LET P(x) == IsLoser(x.latest)
    IN  Take(Sorted(Infos(SelectSeq(snaps, P)), "change", FALSE), TopN)

HighVolume(snaps, config) ==
    LET P(x) == IsHighVolume(x.latest, config)
    IN  Take(Sorted(Infos(SelectSeq(snaps, P)), "volume_ratio", TRUE), TopN)

Alerts_Capped(snaps, config) ==
    LET P(x) == IsAlert(x.latest, config)
        hit == Take(SelectSeq(snaps, P), TopN)
    IN  [i \in 1..Len(hit) |-> Alert(hit[i].symbol, hit[i].latest)]

Alerts(snaps, config) ==
    LET P(x) == IsAlert(x.latest, config)
        hit == SelectSeq(snaps, P)
    IN  [i \in 1..Len(hit) |-> Alert(hit[i].symbol, hit[i].latest)]

\* generate_market_summary
MarketSummary(data_dict, config) ==
    LET snaps == Snapshots(data_dict)
    IN  [total_symbols |-> Len(data_dict),
         gainers |-> Gainers(snaps),
         losers |-> Losers(snaps),
         high_volume |-> HighVolume(snaps, config),
         alerts |-> Alerts(snaps, config)]

(***************************************************************************)
(* Files.  A directory is a function from file names to contents.  The    *)
(* name <<symbol, date>> stands for "<symbol>_<date>.csv" in data/ and for *)
(* "<symbol>_processed_<date>.csv" in data/processed/; both the processor  *)
(* and the report generator take the symbol from filename.split('_')[0].   *)
(* glob returns the names in an order the file system chooses.             *)
(***************************************************************************)
EmptyDir == <<>>

NameBefore(a, b) == a[1] < b[1] \/ (a[1] = b[1] /\ a[2] < b[2])

RECURSIVE Ascending(_)
Ascending(names) ==
    IF names = {} THEN <<>>
    ELSE LET m == CHOOSE a \in names : \A b \in names \ {a} : NameBefore(a, b)
         IN  <<m>> \o Ascending(names \ {m})

Reverse(s) == [i \in 1..Len(s) |-> s[Len(s) + 1 - i]]

\* the listings glob.glob may return for a directory: of the orders a file
\* system can produce, the model takes the ascending and the descending one
GlobOrders(dir) ==
    {Ascending(DOMAIN dir), Reverse(Ascending(DOMAIN dir))}

\* open(path, 'w'): creates or replaces
WriteFile(dir, name, content) == (name :> content) @@ dir

(***************************************************************************)
(* process_all_data                                                        *)
(***************************************************************************)
\* generate_summary_stats: data.iloc[-1] of a frame with rows
SummaryStats(data, symbol) ==
    [symbol |-> symbol,
     date |-> Latest(data).Date,
     close_price |-> Latest(data).Close,
     daily_return |-> Latest(data).Daily_Return,
     volume |-> Latest(data).Volume,
     volume_ratio |-> Latest(data).Volume_Ratio]

\* The loop over data_files.  st is [processed, summaries, raised]: the
\* processed directory, the summaries so far, and whether an exception left
\* the loop.  A frame that is not None is saved first; then
\* generate_summary_stats reads data.iloc[-1], which raises IndexError on a
\* frame without rows, and nothing in process_all_data or main catches it.
RECURSIVE ProcessLoop(_, _, _, _, _, _)
ProcessLoop(data_files, raw, st, date_str, pad, emptyRaises) ==
    IF data_files = <<>> \/ st.raised THEN st
    ELSE LET data_file == Head(data_files)
             symbol == data_file[1]
             processed_data == ProcessSymbolData(raw[data_file], pad, emptyRaises)
             saved == WriteFile(st.processed, <<symbol, date_str>>, processed_data.rows)
             next ==
                 IF processed_data.isNone THEN st
                 ELSE IF processed_data.rows = <<>>
                      THEN [st EXCEPT !.processed = saved, !.raised = TRUE]
                 ELSE [st EXCEPT !.processed = saved,
                                 !.summaries = Append(@, SummaryStats(processed_data.rows, symbol))]
         IN  ProcessLoop(Tail(data_files), raw, next, date_str, pad, emptyRaises)

(***************************************************************************)
(* download_all_symbols                                                    *)
(*                                                                         *)
(* What the provider and the disk do for one symbol is a response          *)
(* [outcome, rows]: "nodata" (yfinance returns an empty frame or raises,   *)
(* download_symbol_data returns None), "savefail" (to_csv raises) or "ok". *)
(***************************************************************************)
\* save_data
SaveData(resp) == resp.outcome = "ok" /\ resp.rows # <<>>

RECURSIVE DownloadLoop_StopAtFailure(_, _, _, _)
DownloadLoop_StopAtFailure(symbols, responses, st, date_str) ==
    IF symbols = <<>> THEN st
    ELSE IF SaveData(Head(responses))
    THEN DownloadLoop_StopAtFailure(
             Tail(symbols), Tail(responses),
             [st EXCEPT !.raw = WriteFile(@, <<Head(symbols), date_str>>,
                                          [kind |-> "csv", rows |-> Head(responses).rows]),
                        !.successful_downloads = @ + 1],
             date_str)
    ELSE [st EXCEPT !.failed_downloads = Append(@, Head(symbols))]

\* the loop of download_all_symbols: download_symbol_data and save_data
\* catch every exception, so the loop goes on to the next symbol
RECURSIVE DownloadLoop(_, _, _, _)
DownloadLoop(symbols, responses, st, date_str) ==
    IF symbols = <<>> THEN st
    ELSE LET symbol == Head(symbols)
             resp == Head(responses)
             next ==
                 IF SaveData(resp)
                 THEN [st EXCEPT !.raw = WriteFile(@, <<symbol, date_str>>,
                                                   [kind |-> "csv", rows |-> resp.rows]),
                                 !.successful_downloads = @ + 1]
                 ELSE [st EXCEPT !.failed_downloads = Append(@, symbol)]
         IN  DownloadLoop(Tail(symbols), Tail(responses), next, date_str)

(***************************************************************************)
(* generate_daily_report                                                   *)
(***************************************************************************)
HasKey(dict, symbol) == \E i \in 1..Len(dict) : dict[i].symbol = symbol

\* data_dict[symbol_name] = data
DictSet(dict, symbol, data) ==
    IF HasKey(dict, symbol)
    THEN [i \in 1..Len(dict) |->
            IF dict[i].symbol = symbol THEN [symbol |-> symbol, data |-> data] ELSE dict[i]]
    ELSE Append(dict, [symbol |-> symbol, data |-> data])

\* load_processed_data(): the loop over files
RECURSIVE LoadProcessedData(_, _, _)
LoadProcessedData(files, dir, dict) ==
    IF files = <<>> THEN dict
    ELSE LoadProcessedData(Tail(files), dir, DictSet(dict, Head(files)[1], dir[Head(files)]))

\* {k: v for k, v in data_dict.items() if k in symbols}, when symbols is given
FilterSymbols(dict, symbols) ==
    IF symbols = <<>> THEN dict
    ELSE LET P(x) == x.symbol \in Range(symbols)
         IN  SelectSeq(dict, P)

Symbols(list) == [i \in 1..Len(list) |-> list[i].symbol]

MoverList_Whole(summary) ==
    Symbols(summary.gainers \o summary.losers) \o Symbols(Take(summary.high_volume, TopVolume))

\* the symbols the two loops add to significant_symbols, in the order added
MoverList(summary) ==
    Symbols(Take(summary.gainers, TopMovers) \o Take(summary.losers, TopMovers))
    \o Symbols(Take(summary.high_volume, TopVolume))

\* significant_symbols, a set()
SignificantSymbols(summary) == Range(MoverList(summary))

\* generate_symbol_analysis returns None for a frame without rows
HasAnalysis(dict, symbol) ==
    \E i \in 1..Len(dict) : dict[i].symbol = symbol /\ dict[i].data # <<>>

\* detailed_analysis: the list is built by iterating a set, so its order is
\* not defined; it is kept as the bag of the symbols analysed
DetailedAnalysis(summary, dict) ==
    LET done == {s \in SignificantSymbols(summary) : HasAnalysis(dict, s)}
    IN  [s \in done |-> 1]

\* create_html_report: what the template shows of its arguments
HtmlReport(summary, detailed_analysis) ==
    [total_symbols |-> summary.total_symbols,
     gainers |-> Take(summary.gainers, 5),
     losers |-> Take(summary.losers, 5),
     high_volume |-> Take(summary.high_volume, 5),
     alerts |-> Take(summary.alerts, 5),
     detailed_analysis |-> detailed_analysis]

(***************************************************************************)
(* Inputs of the model: configuration files, price histories, requests     *)
(***************************************************************************)
Bar(date, close, volume) == [Date |-> date, Close |-> close, Volume |-> volume]

\* n quiet sessions (close 100, volume 9) followed by the sessions of tail,
\* each a pair <<close, volume>>
History(n, tail) ==
    [i \in 1..(n + Len(tail)) |->
        IF i <= n THEN Bar(i, Num(100), Num(9))
        ELSE Bar(i, tail[i - n][1], tail[i - n][2])]

LastCloses == {89, 90, 94, 95, 97, 98, 100, 102, 103, 105, 106, 110, 111}
LastVolumes == {9, 19, 20, 31}

\* the histories the provider may return for the first symbol
WideSeries ==
    {History(VolWindow - 1, <<<<Num(c), Num(v)>>>>) : c \in LastCloses, v \in LastVolumes}
    \cup {History(VolWindow - 2, <<<<Num(c), Num(v)>>>>) : c \in {89, 103, 111}, v \in {9, 31}}
    \cup {History(VolWindow, <<<<Num(103), Num(31)>>>>),
          History(0, <<<<Num(100), Num(9)>>>>),
          \* a session that closed at 0, then one above it or one at 0 again
          History(VolWindow - 2, <<<<Num(0), Num(9)>>, <<Num(5), Num(31)>>>>),
          History(VolWindow - 2, <<<<Num(0), Num(9)>>, <<Num(0), Num(31)>>>>),
          \* a last session without a close
          History(VolWindow - 1, <<<<NaN, Num(31)>>>>),
          \* twenty sessions without any trade
          [i \in 1..VolWindow |->
              Bar(i, IF i = VolWindow THEN Num(103) ELSE Num(100), Num(0))]}

Ok(rows) == [outcome |-> "ok", rows |-> rows]
NoData == [outcome |-> "nodata", rows |-> <<>>]
SaveFail == [outcome |-> "savefail", rows |-> History(1, <<>>)]

WideResponses == {Ok(r) : r \in WideSeries} \cup {NoData, SaveFail}

\* a market of many symbols whose last sessions differ from symbol to symbol
LadderStyles == {"up", "down", "mixed", "ties", "spread"}

LadderBar(i, style) ==
    CASE style = "up" -> <<Num(105 + i), Num(19 + i)>>
      [] style = "down" -> <<Num(95 - i), Num(40 - i)>>
      [] style = "mixed" -> <<Num(IF i % 2 = 1 THEN 105 + i ELSE 95 - i), Num(9)>>
      [] style = "ties" -> <<Num(103), Num(25)>>
      [] style = "spread" ->
            IF i <= 5 THEN <<Num(102 + i), Num(9)>>
            ELSE IF i <= 10 THEN <<Num(103 - i), Num(9)>>
            ELSE <<Num(100), Num(20 + i)>>

Ladder(i, style) == History(VolWindow - 1, <<LadderBar(i, style)>>)

\* what download_all_symbols is asked for, with the provider's answers
WideRequests ==
    {[symbols |-> <<1>>, responses |-> <<r>>] : r \in WideResponses}
    \cup {[symbols |-> <<1, 2>>, responses |-> <<r, Ok(Ladder(1, "up"))>>] : r \in WideResponses}

LadderRequests ==
    {[symbols |-> [i \in 1..k |-> i],
      responses |-> [i \in 1..k |-> Ok(Ladder(i, style))]] :
        k \in (MaxSymbols - 1)..MaxSymbols, style \in LadderStyles}

\* requests where any symbol may fail, and a symbol asked for twice
FailureRequests ==
    LET answers == {Ok(Ladder(1, "up")), NoData, SaveFail}
    IN  {[symbols |-> <<1, 2, 3>>, responses |-> <<a, b, c>>] :
            a \in answers, b \in answers, c \in answers}
        \cup {[symbols |-> <<1, 1>>, responses |-> <<a, b>>] : a \in answers, b \in answers}

DownloadRequests == WideRequests \cup LadderRequests \cup FailureRequests

\* config/symbols.yaml: unreadable, without an 'alerts' section, or with one
ConfigFiles ==
    {[readable |-> FALSE, config |-> EmptyConfig],
     [readable |-> TRUE, config |-> EmptyConfig],
     [readable |-> TRUE,
      config |-> [hasAlerts |-> TRUE, volume_multiplier |-> Num(3),
                  price_change_threshold |-> Num(3)]]}

\* the data directory before today's download: empty, or holding one file:
\* one put there by hand ("0_0.csv": a history, the header line only, or
\* zero bytes) or the file an earlier day's download left for symbol 1
PreexistingDirs ==
    {EmptyDir,
     <<1, 0>> :> [kind |-> "csv", rows |-> History(VolWindow - 2, <<<<Num(95), Num(9)>>>>)],
     <<0, 0>> :> [kind |-> "csv", rows |-> History(VolWindow - 1, <<<<Num(106), Num(31)>>>>)],
     <<0, 0>> :> [kind |-> "csv", rows |-> <<>>],
     <<0, 0>> :> [kind |-> "garbage", rows |-> <<>>]}

\* the --symbols argument of the report generator: absent, or a list
SymbolFilters == {<<>>, <<1>>}

\* a session of the engine's inputs: it opens at 2, trades between 1 and a
\* high above its close; close is a number or NaN
Session(date, close, volume) ==
    [Date |-> date, Open |-> Num(2),
     High |-> IF IsNaN(close) THEN Num(3) ELSE FAdd(close, Num(1)),
     Low |-> Num(1), Close |-> close, Volume |-> Num(volume)]

CloseValues == {1, 2, 4}

\* every series of at most MaxLen sessions; the volume grows with the date
ShortSeries ==
    UNION {{[i \in 1..n |-> Session(i, Num(c[i]), 2 + i)] : c \in [1..n -> CloseValues]} :
            n \in 0..MaxLen}

SeriesShapes == {"flat", "rising", "falling", "zigzag"}

ShapeClose(i, shape) ==
    CASE shape = "flat" -> 100
      [] shape = "rising" -> 100 + i
      [] shape = "falling" -> 200 - i
      [] shape = "zigzag" -> 100 + 3 * (i % 2)

\* n sessions of a shape, then the sessions closing at the values of tail
ShapedSeries(n, shape, tail) ==
    [i \in 1..(n + Len(tail)) |->
        Session(i, Num(IF i <= n THEN ShapeClose(i, shape) ELSE tail[i - n]), 5 + (i % 3))]

\* series about as long as the windows of process_symbol_data (14, 20, 50),
\* and two with a session that has no close
LongSeries ==
    {ShapedSeries(n, shape, <<c1, c2>>) :
        n \in (RsiWindow - 2)..RsiWindow, shape \in SeriesShapes,
        c1 \in {98, 100, 103}, c2 \in {98, 100, 103}}
    \cup {ShapedSeries(n, shape, <<103>>) : n \in {SmaShort, SmaLong}, shape \in SeriesShapes}
    \cup {<<Session(1, Num(1), 3), Session(2, NaN, 4), Session(3, Num(2), 5)>>,
          <<Session(1, NaN, 3), Session(2, Num(2), 4)>>}

EngineSeries == ShortSeries \cup LongSeries

Windows == (1..MaxWindow) \cup {RsiWindow}

\* the rows _analyze_sma_trend may be given
TrendValues == {NaN, Num(1), Num(2), Num(3)}
TrendRows ==
    {[Close |-> c, SMA_20 |-> a, SMA_50 |-> b] :
        c \in TrendValues, a \in TrendValues, b \in TrendValues}

(***************************************************************************)
(* State                                                                   *)
(***************************************************************************)
VARIABLES
    configFile,         \* config/symbols.yaml
    today,              \* datetime.now().strftime('%Y%m%d')
    downloader,         \* data_downloader.py: "none" (not run), "exited" (sys.exit(1)) or "done"
    download_result,    \* what download_all_symbols was asked for, was answered and returned
    rawDir,             \* data/*.csv
    processor,          \* data_processor.py: "none", "returned" or "raised" (uncaught exception)
    summaries,          \* what process_all_data returned
    processedDir,       \* data/processed/*.csv
    config,             \* self.config of the report generator
    data_dict,          \* generate_daily_report: the mapping handed to generate_market_summary
    summary,            \* generate_daily_report: the market summary
    detailed_analysis,  \* generate_daily_report: the analyses
    report_path,        \* "none" (not called), "None" or "saved": what generate_daily_report returned
    reportsDir,         \* reports/market_report_<date>.html
    bars,               \* the series handed to a function of the indicator engine
    call,               \* the function called on it, with its other arguments
    result              \* what the function returned

pipelineVars ==
    <<configFile, today, downloader, download_result, rawDir, processor, summaries,
      processedDir, config, data_dict, summary, detailed_analysis, report_path,
      reportsDir>>

engineVars == <<bars, call, result>>

vars == <<pipelineVars, engineVars>>

downloaderVars == <<downloader, download_result, rawDir>>
processorVars == <<processor, summaries, processedDir>>
reportVars == <<config, data_dict, summary, detailed_analysis, report_path, reportsDir>>

NoSummary ==
    [total_symbols |-> 0, gainers |-> <<>>, losers |-> <<>>, high_volume |-> <<>>,
     alerts |-> <<>>]

NotCalled ==
    [called |-> FALSE, symbols |-> <<>>, responses |-> <<>>, successful_downloads |-> 0,
     failed_downloads |-> <<>>]

NoCall == [name |-> "none"]

Init ==
    /\ configFile \in ConfigFiles
    /\ today = 1
    /\ downloader = "none"
    /\ download_result = NotCalled
    /\ rawDir \in PreexistingDirs
    /\ processor = "none"
    /\ summaries = <<>>
    /\ processedDir = EmptyDir
    /\ config = EmptyConfig
    /\ data_dict = <<>>
    /\ summary = NoSummary
    /\ detailed_analysis = EmptyBag
    /\ report_path = "none"
    /\ reportsDir = EmptyDir
    /\ bars = <<>>
    /\ call = NoCall
    /\ result = <<>>

(***************************************************************************)
(* Actions: one run of each script's main()                                *)
(***************************************************************************)
\* data_downloader.py with a configuration file that cannot be loaded:
\* MarketDataDownloader._load_config prints the error and calls sys.exit(1)
DownloaderExit ==
    /\ downloader = "none"
    /\ ~configFile.readable
    /\ downloader' = "exited"
    /\ UNCHANGED <<configFile, today, download_result, rawDir>>
    /\ UNCHANGED engineVars
    /\ UNCHANGED processorVars
    /\ UNCHANGED reportVars

\* data_downloader.py: MarketDataDownloader(), then download_all_symbols(symbols)
DownloadAllSymbols ==
    /\ downloader = "none"
    /\ configFile.readable
    /\ \E req \in DownloadRequests :
        LET st == DownloadLoop(req.symbols, req.responses,
                               [raw |-> rawDir, successful_downloads |-> 0,
                                failed_downloads |-> <<>>],
                               today)
        IN  /\ rawDir' = st.raw
            /\ download_result' =
                [called |-> TRUE, symbols |-> req.symbols, responses |-> req.responses,
                 successful_downloads |-> st.successful_downloads,
                 failed_downloads |-> st.failed_downloads]
    /\ downloader' = "done"
    /\ UNCHANGED <<configFile, today>>
    /\ UNCHANGED engineVars
    /\ UNCHANGED processorVars
    /\ UNCHANGED reportVars

\* The pandas releases differ on a frame with a missing close (pct_change
\* pads or not) and on a frame without rows (pct_change raises or not);
\* on every other directory both choices give the same result
PadChoices(raw) ==
    IF \E f \in DOMAIN raw : \E i \in 1..Len(raw[f].rows) : IsNaN(raw[f].rows[i].Close)
    THEN BOOLEAN ELSE {TRUE}

EmptyRaisesChoices(raw) ==
    IF \E f \in DOMAIN raw : raw[f].kind = "csv" /\ raw[f].rows = <<>>
    THEN BOOLEAN ELSE {FALSE}

\* data_processor.py: MarketDataProcessor(), then process_all_data()
ProcessAllData ==
    /\ processor = "none"
    /\ \E data_files \in GlobOrders(rawDir), pad \in PadChoices(rawDir),
          emptyRaises \in EmptyRaisesChoices(rawDir) :
        LET st == ProcessLoop(data_files, rawDir,
                              [processed |-> processedDir, summaries |-> <<>>,
                               raised |-> FALSE],
                              today, pad, emptyRaises)
        IN  /\ processedDir' = st.processed
            /\ processor' = IF st.raised THEN "raised" ELSE "returned"
            /\ summaries' = IF st.raised THEN <<>> ELSE st.summaries
    /\ UNCHANGED <<configFile, today>>
    /\ UNCHANGED engineVars
    /\ UNCHANGED downloaderVars
    /\ UNCHANGED reportVars

\* MarketReportGenerator._load_config: {} on any exception
LoadConfig == IF configFile.readable THEN configFile.config ELSE EmptyConfig

\* report_generator.py: MarketReportGenerator(), then generate_daily_report(symbols)
\* where load_processed_data() finds nothing: it returns None
ReportNoData ==
    /\ report_path = "none"
    /\ processedDir = EmptyDir
    /\ config' = LoadConfig
    /\ report_path' = "None"
    /\ UNCHANGED <<data_dict, summary, detailed_analysis, reportsDir>>
    /\ UNCHANGED <<configFile, today>>
    /\ UNCHANGED engineVars
    /\ UNCHANGED downloaderVars
    /\ UNCHANGED processorVars

\* report_generator.py: MarketReportGenerator(), then generate_daily_report(symbols):
\* load, filter, summarise, analyse, render, save (saved: whether the write succeeds)
GenerateDailyReport ==
    /\ report_path = "none"
    /\ processedDir # EmptyDir
    /\ \E files \in GlobOrders(processedDir), symbols \in SymbolFilters, saved \in BOOLEAN :
        LET loaded == LoadProcessedData(files, processedDir, <<>>)
            dict == FilterSymbols(loaded, symbols)
            sum == MarketSummary(dict, LoadConfig)
            detailed == DetailedAnalysis(sum, dict)
        IN  /\ data_dict' = dict
            /\ summary' = sum
            /\ detailed_analysis' = detailed
            /\ reportsDir' =
                IF saved THEN WriteFile(reportsDir, today, HtmlReport(sum, detailed))
                ELSE reportsDir
            /\ report_path' = IF saved THEN "saved" ELSE "None"
    /\ config' = LoadConfig
    /\ UNCHANGED <<configFile, today>>
    /\ UNCHANGED engineVars
    /\ UNCHANGED downloaderVars
    /\ UNCHANGED processorVars

Next ==
    \/ DownloaderExit
    \/ DownloadAllSymbols
    \/ ProcessAllData
    \/ ReportNoData
    \/ GenerateDailyReport

Spec == Init /\ [][Next]_vars

(***************************************************************************)
(* The indicator engine and the trend classifier on their own: one call of *)
(* one function on a series drawn from EngineSeries.  The pipeline does    *)
(* not run.                                                                *)
(***************************************************************************)
EngineInit ==
    /\ configFile = [readable |-> TRUE, config |-> EmptyConfig]
    /\ today = 1
    /\ downloader = "none"
    /\ download_result = NotCalled
    /\ rawDir = EmptyDir
    /\ processor = "none"
    /\ summaries = <<>>
    /\ processedDir = EmptyDir
    /\ config = EmptyConfig
    /\ data_dict = <<>>
    /\ summary = NoSummary
    /\ detailed_analysis = EmptyBag
    /\ report_path = "none"
    /\ reportsDir = EmptyDir
    /\ bars \in EngineSeries
    /\ call = NoCall
    /\ result = <<>>

\* calculate_sma(data, window)
CallCalculateSMA ==
    /\ call = NoCall
    /\ \E window \in Windows :
        /\ call' = [name |-> "calculate_sma", window |-> window]
        /\ result' = CalculateSMA(bars, window)
    /\ UNCHANGED <<bars, pipelineVars>>

\* calculate_rsi(data, window)
CallCalculateRSI ==
    /\ call = NoCall
    /\ \E window \in Windows :
        /\ call' = [name |-> "calculate_rsi", window |-> window]
        /\ result' = CalculateRSI(bars, window)
    /\ UNCHANGED <<bars, pipelineVars>>

\* calculate_volume_indicators(data)
CallCalculateVolumeIndicators ==
    /\ call = NoCall
    /\ call' = [name |-> "calculate_volume_indicators"]
    /\ result' = CalculateVolumeIndicators(bars)
    /\ UNCHANGED <<bars, pipelineVars>>

\* process_symbol_data on the file of the series and on the file of its
\* first upto bars, by the same pandas
CallProcessSymbolData ==
    /\ call = NoCall
    /\ \E upto \in 0..Len(bars), pad \in PadChoices(<<[rows |-> bars]>>) :
        /\ call' = [name |-> "process_symbol_data", upto |-> upto]
        /\ result' = [whole |-> Indicators(bars, pad),
                      head |-> Indicators(Take(bars, upto), pad)]
    /\ UNCHANGED <<bars, pipelineVars>>

\* _analyze_sma_trend(row)
CallAnalyzeSmaTrend ==
    /\ call = NoCall
    /\ \E row \in TrendRows :
        /\ call' = [name |-> "_analyze_sma_trend", row |-> row]
        /\ result' = AnalyzeSmaTrend(row)
    /\ UNCHANGED <<bars, pipelineVars>>

EngineNext ==
    \/ CallCalculateSMA
    \/ CallCalculateRSI
    \/ CallCalculateVolumeIndicators
    \/ CallProcessSymbolData
    \/ CallAnalyzeSmaTrend

EngineSpec == EngineInit /\ [][EngineNext]_vars

(***************************************************************************)
(* Properties.  They read the state only, with comparisons of their own   *)
(* (cross-multiplication), not the operators of the model above.           *)
(***************************************************************************)
Undefined(x) == x.n = 0 /\ x.d = 0

\* x > y and x = y for two values, neither of them NaN
Greater(x, y) ==
    IF x.d = 0 \/ y.d = 0
    THEN (IF x.d = 0 /\ y.d = 0 THEN x.n > y.n ELSE IF x.d = 0 THEN x.n > 0 ELSE y.n < 0)
    ELSE x.n * y.d > y.n * x.d

\* x > p/q and x < p/q, for q > 0
Exceeds(x, p, q) == ~Undefined(x) /\ Greater(x, [n |-> p, d |-> q])
Below(x, p, q) == ~Undefined(x) /\ Greater([n |-> p, d |-> q], x)

\* |x|
Magnitude(x) == [n |-> IF x.n < 0 THEN -x.n ELSE x.n, d |-> x.d]

\* x = 100 * y
IsPercentOf(x, y) ==
    IF x.d = 0 \/ y.d = 0 THEN x = y ELSE x.n * y.d = 100 * y.n * x.d

Items == 1..Len(data_dict)
LastRow(i) == data_dict[i].data[Len(data_dict[i].data)]
Return(i) == LastRow(i).Daily_Return
Ratio(i) == LastRow(i).Volume_Ratio

\* the items of data_dict with a last bar, a close and a daily return
Passed(i) ==
    /\ data_dict[i].data # <<>>
    /\ ~Undefined(LastRow(i).Close)
    /\ ~Undefined(Return(i))

Listed(list, symbol) == \E j \in 1..Len(list) : list[j].symbol = symbol

\* C1: a symbol is in at most one of gainers and losers; a gainer's return
\* is strictly above +2%, a loser's strictly below -2%; a return of exactly
\* +2% or -2% is in neither list.
C1_GainerLoserExclusive ==
    \A i \in Items :
        LET s == data_dict[i].symbol
        IN  /\ ~(Listed(summary.gainers, s) /\ Listed(summary.losers, s))
            /\ Listed(summary.gainers, s) => Passed(i) /\ Exceeds(Return(i), 2, 100)
            /\ Listed(summary.losers, s) => Passed(i) /\ Below(Return(i), -2, 100)
            /\ (Passed(i) /\ Return(i) \in {[n |-> 1, d |-> 50], [n |-> -1, d |-> 50]})
                => ~Listed(summary.gainers, s) /\ ~Listed(summary.losers, s)

\* a summary of two symbols, one at exactly +2% and in neither list, the other a gainer
C1_Witness ==
    /\ report_path = "saved"
    /\ \E i \in Items :
        /\ Passed(i)
        /\ Return(i) = [n |-> 1, d |-> 50]
        /\ ~Listed(summary.gainers, data_dict[i].symbol)
        /\ ~Listed(summary.losers, data_dict[i].symbol)
    /\ Len(summary.gainers) = 1

\* The list is the first ten of the items in qualified, ranked by the key:
\* it has min(10, #qualified) entries, each a qualified item with its key,
\* no symbol twice, in ranking order, and no qualified item left out ranks
\* before an entry.
RankedTopTen(list, key, qualified, KeyOf(_), descending) ==
    LET Outranks(x, y) == IF descending THEN Greater(x, y) ELSE Greater(y, x)
    IN  /\ Len(list) = IF Cardinality(qualified) < 10 THEN Cardinality(qualified) ELSE 10
        /\ \A j \in 1..Len(list) :
            \E i \in qualified :
                /\ data_dict[i].symbol = list[j].symbol
                /\ list[j][key] = KeyOf(i)
        /\ \A j, k \in 1..Len(list) : j # k => list[j].symbol # list[k].symbol
        /\ \A j \in 1..(Len(list) - 1) : ~Outranks(list[j + 1][key], list[j][key])
        /\ \A i \in qualified :
            ~Listed(list, data_dict[i].symbol)
                => \A j \in 1..Len(list) : ~Outranks(KeyOf(i), list[j][key])

Change(i) ==
    IF Return(i).d = 0 THEN Return(i)
    ELSE LET r == Return(i)
             g == GCD(100, r.d)
         IN  [n |-> r.n * (100 \div g), d |-> r.d \div g]

ConfiguredMultiplier == IF config.hasAlerts THEN config.volume_multiplier ELSE [n |-> 2, d |-> 1]
ConfiguredThreshold == IF config.hasAlerts THEN config.price_change_threshold ELSE [n |-> 5, d |-> 1]

QualifiedGainers == {i \in Items : Passed(i) /\ Exceeds(Return(i), 2, 100)}
QualifiedLosers == {i \in Items : Passed(i) /\ Below(Return(i), -2, 100)}
QualifiedVolume ==
    {i \in Items : Passed(i) /\ ~Undefined(Ratio(i)) /\ Greater(Ratio(i), ConfiguredMultiplier)}

\* C2: each ranked list is the first 10 of its qualifying symbols in ranking
\* order: gainers above +2% by return descending, losers below -2% by return
\* ascending, high_volume above the multiplier by volume ratio descending.
C2_RankedListsAreTopTen ==
    /\ RankedTopTen(summary.gainers, "change", QualifiedGainers, Change, TRUE)
    /\ RankedTopTen(summary.losers, "change", QualifiedLosers, Change, FALSE)
    /\ RankedTopTen(summary.high_volume, "volume_ratio", QualifiedVolume, Ratio, TRUE)

\* twelve gainers with twelve different returns: the list holds ten, the two
\* lowest are left out
C2_Witness ==
    /\ Cardinality(QualifiedGainers) = 12
    /\ \A i, k \in QualifiedGainers : i # k => Return(i) # Return(k)
    /\ Len(summary.gainers) = 10
    /\ Cardinality({i \in QualifiedGainers :
                        /\ ~Listed(summary.gainers, data_dict[i].symbol)
                        /\ \A j \in 1..10 : Greater(summary.gainers[j].change, Change(i))}) = 2

InSummary(symbol) ==
    \/ Listed(summary.gainers, symbol)
    \/ Listed(summary.losers, symbol)
    \/ Listed(summary.high_volume, symbol)
    \/ Listed(summary.alerts, symbol)

\* |return| > threshold percent
Moved(i, threshold) ==
    \/ Return(i).d = 0 /\ Return(i).n # 0
    \/ Return(i).d > 0 /\ Magnitude(Return(i)).n * 100 * threshold.d > threshold.n * Return(i).d

\* C3: a symbol whose series is empty, or whose last bar has an undefined
\* close or daily return, is in none of gainers, losers, high_volume, alerts;
\* the other symbols are still processed (all are counted, and each one that
\* moved beyond the threshold has its alert).
C3_SkippedSymbolsExcluded ==
    /\ \A i \in Items : ~Passed(i) => ~InSummary(data_dict[i].symbol)
    /\ summary.total_symbols = Len(data_dict)
    /\ \A i \in Items :
        Passed(i) /\ Moved(i, ConfiguredThreshold) => Listed(summary.alerts, data_dict[i].symbol)

\* a symbol without a daily return on its last bar but with a volume ratio
\* above the multiplier, next to a symbol that is listed
C3_Witness ==
    \E i, k \in Items :
        /\ data_dict[i].data # <<>>
        /\ Undefined(Return(i))
        /\ ~Undefined(Ratio(i))
        /\ Greater(Ratio(i), ConfiguredMultiplier)
        /\ ~InSummary(data_dict[i].symbol)
        /\ Passed(k)
        /\ Listed(summary.gainers, data_dict[k].symbol)
        /\ Listed(summary.alerts, data_dict[k].symbol)

\* the items that must raise an alert, in the order of data_dict
Alerting ==
    LET P(x) ==
            \E i \in Items :
                data_dict[i] = x /\ Passed(i) /\ Moved(i, ConfiguredThreshold)
    IN  SelectSeq(data_dict, P)

\* C4: the alerts are, in the iteration order of data_dict and without any
\* cap, one for each symbol not skipped whose |return| is strictly above
\* the configured threshold, "high" iff |return| > 10%, else "medium".
C4_AlertsExactUnsortedUncapped ==
    /\ Len(summary.alerts) = Len(Alerting)
    /\ \A j \in 1..Len(summary.alerts) :
        LET r == Alerting[j].data[Len(Alerting[j].data)].Daily_Return
            big == (r.d = 0) \/ (Magnitude(r).n * 10 > r.d)
        IN  /\ summary.alerts[j].symbol = Alerting[j].symbol
            /\ summary.alerts[j].severity = IF big THEN "high" ELSE "medium"

\* more than ten alerts, of both severities, one of them at exactly 10%
C4_Witness ==
    /\ Len(summary.alerts) > 10
    /\ \E j \in 1..Len(summary.alerts) : summary.alerts[j].severity = "high"
    /\ \E j \in 1..Len(summary.alerts) :
        /\ summary.alerts[j].severity = "medium"
        /\ \E i \in Items :
            /\ data_dict[i].symbol = summary.alerts[j].symbol
            /\ Return(i) = [n |-> 1, d |-> 10]

\* C5: in every annotated series Volume_MA and Volume_Ratio are undefined at
\* the first 19 bars; a symbol is in high_volume only if its volume ratio is
\* defined and strictly above the multiplier, and every such symbol is in it
\* as long as there are no more than ten.
C5_VolumeRatioWarmUp ==
    /\ \A f \in DOMAIN processedDir :
        \A i \in 1..Len(processedDir[f]) :
            i <= 19 =>
                /\ Undefined(processedDir[f][i].Volume_MA)
                /\ Undefined(processedDir[f][i].Volume_Ratio)
    /\ \A i \in Items :
        Listed(summary.high_volume, data_dict[i].symbol) => i \in QualifiedVolume
    /\ Cardinality(QualifiedVolume) <= 10 =>
        \A i \in QualifiedVolume : Listed(summary.high_volume, data_dict[i].symbol)

\* a series of 19 bars whose last volume is more than three times the
\* volume before it is not in high_volume; a series of 20 bars is
C5_Witness ==
    \E i, k \in Items :
        /\ Len(data_dict[i].data) = 19
        /\ Passed(i)
        /\ LastRow(i).Volume = [n |-> 31, d |-> 1]
        /\ Undefined(Ratio(i))
        /\ ~Listed(summary.high_volume, data_dict[i].symbol)
        /\ Len(data_dict[k].data) = 20
        /\ Listed(summary.high_volume, data_dict[k].symbol)

Finite(x) == x.d > 0

\* C6: a value that comes from a division by zero is never a ranking key.
\* In every annotated series the daily return after a close of 0 and the
\* volume ratio over an average volume of 0 are the undefined marker; no
\* entry of gainers or losers has an infinite or undefined 'change', no entry
\* of high_volume an infinite or undefined 'volume_ratio'.
C6_NoDivisionByZeroKey ==
    /\ \A f \in DOMAIN processedDir :
        \A i \in 1..Len(processedDir[f]) :
            LET rows == processedDir[f]
            IN  /\ (i > 1 /\ rows[i - 1].Close = [n |-> 0, d |-> 1])
                    => Undefined(rows[i].Daily_Return)
                /\ rows[i].Volume_MA = [n |-> 0, d |-> 1]
                    => Undefined(rows[i].Volume_Ratio)
    /\ \A j \in 1..Len(summary.gainers) : Finite(summary.gainers[j].change)
    /\ \A j \in 1..Len(summary.losers) : Finite(summary.losers[j].change)
    /\ \A j \in 1..Len(summary.high_volume) : Finite(summary.high_volume[j].volume_ratio)

HasSummary(list, symbol) == \E j \in 1..Len(list) : list[j].symbol = symbol

\* C7: a run of process_all_data over a directory with a raw file without
\* bars does not abort: it returns, with no processed file and no summary
\* for that file's symbol and with a summary for every file that has bars.
C7_EmptySeriesIsSkipped ==
    [][(processor = "none" /\ processor' # "none") =>
        /\ processor' = "returned"
        /\ \A f \in DOMAIN rawDir :
            IF rawDir[f].rows = <<>>
            THEN /\ <<f[1], today>> \notin DOMAIN processedDir'
                 /\ ~HasSummary(summaries', f[1])
            ELSE HasSummary(summaries', f[1])]_vars

\* C8: with a configuration file that cannot be loaded, the downloader
\* downloads nothing and the report generator generates no report.
C8_UnreadableConfigStopsAll ==
    ~configFile.readable =>
        /\ downloader # "done"
        /\ ~download_result.called
        /\ report_path # "saved"
        /\ reportsDir = EmptyDir

\* C9: a report file is saved, and its path returned, only when the mapping
\* handed to generate_market_summary holds at least one symbol.
C9_NoDataNoReport ==
    (report_path = "saved" \/ reportsDir # EmptyDir) => data_dict # <<>>

Slice(list, k) == {list[j].symbol : j \in 1..(IF Len(list) < k THEN Len(list) ELSE k)}

\* C10: the symbols analysed are those of gainers[0:5], losers[0:5] and
\* high_volume[0:3], each analysed once, so never more than 13.
C10_DetailedAnalysisSelection ==
    /\ BagToSet(detailed_analysis) =
        Slice(summary.gainers, 5) \cup Slice(summary.losers, 5) \cup Slice(summary.high_volume, 3)
    /\ \A s \in BagToSet(detailed_analysis) : CopiesIn(s, detailed_analysis) = 1
    /\ BagCardinality(detailed_analysis) <= 13

\* a symbol of gainers[0:5] that is in high_volume[0:3] too, analysed once,
\* and a symbol ranked 6th to 10th in gainers and 4th to 10th in high_volume,
\* not analysed
C10_Witness ==
    /\ \E j \in 1..5, k \in 1..3 :
        /\ j <= Len(summary.gainers)
        /\ k <= Len(summary.high_volume)
        /\ summary.gainers[j].symbol = summary.high_volume[k].symbol
        /\ CopiesIn(summary.gainers[j].symbol, detailed_analysis) = 1
    /\ \E j \in 6..10, k \in 4..10 :
        /\ j <= Len(summary.gainers)
        /\ k <= Len(summary.high_volume)
        /\ summary.gainers[j].symbol = summary.high_volume[k].symbol
        /\ ~BagIn(summary.gainers[j].symbol, detailed_analysis)

(***************************************************************************)
(* Properties of the indicator engine, under EngineSpec.  The closes and   *)
(* volumes of the series are whole numbers or NaN, so the sums below are   *)
(* integer sums.                                                           *)
(***************************************************************************)
Called(name) == call.name = name

Whole(x) == x.d = 1

\* close[lo] + ... + close[hi] of bars, all of them whole
RECURSIVE CloseSum(_, _)
CloseSum(lo, hi) == IF lo > hi THEN 0 ELSE bars[lo].Close.n + CloseSum(lo + 1, hi)

\* x > y, False when one of them is undefined
Gt(x, y) == ~Undefined(x) /\ ~Undefined(y) /\ Greater(x, y)

\* C11: calculate_sma(window) gives, at every position with window closes up
\* to it, their arithmetic mean (undefined if one of them is), and the
\* undefined marker at every earlier position.
C11_SmaIsWindowMean ==
    Called("calculate_sma") =>
        /\ Len(result) = Len(bars)
        /\ \A i \in 1..Len(bars) :
            LET w == call.window
            IN  IF i < w THEN Undefined(result[i])
                ELSE IF \E j \in (i - w + 1)..i : Undefined(bars[j].Close)
                     THEN Undefined(result[i])
                ELSE /\ result[i].d > 0
                     /\ result[i].n * w = CloseSum(i - w + 1, i) * result[i].d

\* a window of 3 on four bars: undefined at the first two, then two
\* different means, the first not a whole number
C11_Witness ==
    /\ Called("calculate_sma")
    /\ call.window = 3
    /\ Len(bars) = 4
    /\ Undefined(result[1])
    /\ Undefined(result[2])
    /\ result[3].d = 3
    /\ result[4].d > 0
    /\ result[3] # result[4]

Positive(x) == x.d > 0 /\ x.n > 0

\* no close of positions lo..hi is below the close before it
NoLoss(lo, hi) ==
    \A j \in lo..hi : j >= 2 => ~Greater(bars[j - 1].Close, bars[j].Close)

\* C12: on a series of positive closes every defined RSI value is within
\* [0, 100], and where the window holds no negative delta the value is 100
\* or undefined.
C12_RsiBounded ==
    (Called("calculate_rsi") /\ \A j \in 1..Len(bars) : Positive(bars[j].Close)) =>
        \A i \in 1..Len(result) :
            /\ ~Undefined(result[i]) =>
                /\ result[i].d > 0
                /\ result[i].n >= 0
                /\ result[i].n <= 100 * result[i].d
            /\ (i >= call.window /\ NoLoss(i - call.window + 1, i)) =>
                \/ Undefined(result[i])
                \/ result[i] = [n |-> 100, d |-> 1]

\* one series with a saturated value after gains only and a value strictly
\* between 0 and 100 after a gain and a loss
C12_Witness ==
    /\ Called("calculate_rsi")
    /\ \A j \in 1..Len(bars) : Positive(bars[j].Close)
    /\ \E i, k \in 1..Len(result) :
        /\ i >= call.window
        /\ NoLoss(i - call.window + 1, i)
        /\ result[i] = [n |-> 100, d |-> 1]
        /\ result[k].d > 0
        /\ result[k].n > 0
        /\ result[k].n < 100 * result[k].d

\* C13: with the window of 14 the RSI is undefined at each of the indexes
\* 0..13 (positions 1..14).
C13_RsiFirstValidIndex ==
    (Called("calculate_rsi") /\ call.window = 14) =>
        \A i \in 1..Len(result) : i <= 14 => Undefined(result[i])

\* C14: OBV is defined at every index, 0 at the first, and from then on the
\* value before it plus the volume after a higher close, minus the volume
\* after a lower close, unchanged after an equal close.
C14_ObvRunningSum ==
    Called("calculate_volume_indicators") =>
        /\ Len(result.obv) = Len(bars)
        /\ \A i \in 1..Len(bars) : Whole(result.obv[i])
        /\ Len(bars) >= 1 => result.obv[1].n = 0
        /\ \A i \in 2..Len(bars) :
            LET step == result.obv[i].n - result.obv[i - 1].n
                now == bars[i].Close
                before == bars[i - 1].Close
            IN  /\ Gt(now, before) => step = bars[i].Volume.n
                /\ Gt(before, now) => step = -bars[i].Volume.n
                /\ (~Undefined(now) /\ now = before) => step = 0

\* a series with a higher, an equal and a lower close, OBV ending below 0
C14_Witness ==
    /\ Called("calculate_volume_indicators")
    /\ Len(bars) = 4
    /\ Gt(bars[2].Close, bars[1].Close)
    /\ bars[3].Close = bars[2].Close
    /\ Gt(bars[3].Close, bars[4].Close)
    /\ result.obv[2].n > 0
    /\ result.obv[3] = result.obv[2]
    /\ result.obv[4].n < 0

\* C15: the derived fields of the first upto bars are the same whether or
\* not later bars follow them in the file.
C15_Causal ==
    Called("process_symbol_data") =>
        /\ Len(result.whole) = Len(bars)
        /\ Len(result.head) = call.upto
        /\ \A i \in 1..call.upto : result.whole[i] = result.head[i]

\* later bars follow a bar at which SMA_20, RSI, the volume ratio and the
\* daily return are all defined
C15_Witness ==
    /\ Called("process_symbol_data")
    /\ call.upto >= 1
    /\ call.upto < Len(bars)
    /\ LET row == result.whole[call.upto]
       IN  /\ ~Undefined(row.SMA_20)
           /\ ~Undefined(row.RSI)
           /\ ~Undefined(row.Volume_Ratio)
           /\ ~Undefined(row.Daily_Return)
           /\ row.OBV # [n |-> 0, d |-> 1]
           /\ row = result.head[call.upto]

\* C16: the label is "Insufficient data" iff an SMA is undefined; otherwise
\* "Strong Uptrend" iff close > SMA20 > SMA50, "Weak Uptrend" iff close >
\* SMA20 and SMA20 < SMA50, "Strong Downtrend" iff close < SMA20 < SMA50, and
\* "Weak Downtrend" in every other case.
C16_TrendClassification ==
    Called("_analyze_sma_trend") =>
        LET close == call.row.Close
            sma20 == call.row.SMA_20
            sma50 == call.row.SMA_50
            known == ~Undefined(sma20) /\ ~Undefined(sma50)
            strongUp == known /\ Gt(close, sma20) /\ Gt(sma20, sma50)
            weakUp == known /\ Gt(close, sma20) /\ Gt(sma50, sma20)
            strongDown == known /\ Gt(sma20, close) /\ Gt(sma50, sma20)
        IN  /\ result = "Insufficient data" <=> ~known
            /\ result = "Strong Uptrend" <=> strongUp
            /\ result = "Weak Uptrend" <=> weakUp
            /\ result = "Strong Downtrend" <=> strongDown
            /\ result = "Weak Downtrend" <=> (known /\ ~strongUp /\ ~weakUp /\ ~strongDown)

\* a close above two equal averages is a "Weak Downtrend"
C16_Witness ==
    /\ Called("_analyze_sma_trend")
    /\ Gt(call.row.Close, call.row.SMA_20)
    /\ ~Undefined(call.row.SMA_50)
    /\ call.row.SMA_20 = call.row.SMA_50
    /\ result = "Weak Downtrend"

(***************************************************************************)
(* Properties of the downloader and of the batch, under Spec               *)
(***************************************************************************)
Requested == 1..Len(download_result.symbols)

\* the requests for symbol s whose answer is in outcomes
Answered(s, outcomes) ==
    {j \in Requested :
        /\ download_result.symbols[j] = s
        /\ download_result.responses[j].outcome \in outcomes}

\* C17: download_all_symbols returns after every per-symbol failure; each
\* requested symbol is counted once per occurrence, as a success or in
\* failed_downloads; it is in failed_downloads as often as its download gave
\* no data or its save failed; a symbol that only ever gave no data has no
\* file of today.
C17_DownloadAccounting ==
    download_result.called =>
        /\ downloader = "done"
        /\ download_result.successful_downloads + Len(download_result.failed_downloads)
            = Len(download_result.symbols)
        /\ \A s \in {download_result.symbols[j] : j \in Requested} :
            /\ Cardinality({k \in 1..Len(download_result.failed_downloads) :
                                download_result.failed_downloads[k] = s})
                = Cardinality(Answered(s, {"nodata", "savefail"}))
            /\ Answered(s, {"nodata"}) = Answered(s, {"nodata", "savefail", "ok"})
                => <<s, today>> \notin DOMAIN rawDir

\* three symbols: no data for the first, a failed save for the second, and
\* the third is still downloaded and saved
C17_Witness ==
    /\ download_result.called
    /\ download_result.symbols = <<1, 2, 3>>
    /\ download_result.responses[1].outcome = "nodata"
    /\ download_result.responses[2].outcome = "savefail"
    /\ download_result.responses[3].outcome = "ok"
    /\ download_result.successful_downloads = 1
    /\ download_result.failed_downloads = <<1, 2>>
    /\ <<1, today>> \notin DOMAIN rawDir
    /\ <<3, today>> \in DOMAIN rawDir

\* the raw files with bars
RawWithBars == {f \in DOMAIN rawDir : rawDir[f].rows # <<>>}

\* the processed file and the summary are those of the raw file f
MadeFrom(file, stats, f) ==
    LET rows == rawDir[f].rows
    IN  /\ Len(file) = Len(rows)
        /\ \A i \in 1..Len(rows) :
            /\ file[i].Date = rows[i].Date
            /\ file[i].Close = rows[i].Close
            /\ file[i].Volume = rows[i].Volume
        /\ stats.date = rows[Len(rows)].Date
        /\ stats.close_price = rows[Len(rows)].Close

\* C18: when process_all_data returns, every symbol with a raw file has
\* exactly one summary, and that summary and the symbol's processed file
\* come from one and the same raw file.
C18_OneSummaryPerSymbol ==
    [][(processor = "none" /\ processor' = "returned") =>
        \A s \in {f[1] : f \in RawWithBars} :
            /\ Cardinality({j \in 1..Len(summaries') : summaries'[j].symbol = s}) = 1
            /\ <<s, today>> \in DOMAIN processedDir'
            /\ \E f \in RawWithBars :
                /\ f[1] = s
                /\ \A j \in 1..Len(summaries') :
                    summaries'[j].symbol = s
                        => MadeFrom(processedDir'[<<s, today>>], summaries'[j], f)]_vars

====
